---- MODULE Spec2Model ----
(***************************************************************************)
(* Model of bgp_adjacencies/BGP_Neighbors_Established_Revised.py: a pyATS  *)
(* aetest script with three sections run in sequence by the harness:       *)
(*   CommonSetup.connect, BGPNeighborsEstablished.{learn_bgp, check_bgp},  *)
(*   CommonCleanup.clean_up.                                               *)
(*                                                                         *)
(* Python dicts are insertion ordered: a dict is modelled as a sequence of *)
(* items [k |-> key, v |-> value] with pairwise distinct keys.  A Python   *)
(* str that the script transforms (session_state) is a sequence of         *)
(* one-character strings, so that lower() and capitalize() are computed.   *)
(*                                                                         *)
(* aetest result calls: self.failed(...) and self.passed(...) raise a      *)
(* result signal, so the section ends at the call.  A failed CommonSetup   *)
(* blocks the testcases and the harness goes on to the common cleanup;     *)
(* failed(goto=['common_cleanup']) skips the rest of the testcase.         *)
(***************************************************************************)
EXTENDS Integers, Sequences, FiniteSets, TLC

VARIABLES
    testbed,           \* genie_testbed.devices.values(): device names in inventory order
    connect_oracle,    \* environment: the devices whose device.connect() raises
    connected,         \* the devices whose device.connect() returned
    connect_calls,     \* the devices device.connect() was invoked on, in order
    device_list,       \* connect's local list
    parameters,        \* self.parent.parameters, a dict
    all_bgp_sessions,  \* self.all_bgp_sessions, a dict device.name -> bgp.info
    learn_calls,       \* the devices bgp.learn() was invoked on, in order
    failed_dict,       \* check_bgp's local dict device -> (nbr -> props)
    results_table,     \* check_bgp's local list of rows
    tables,            \* log: the tables emitted by check_bgp, in order
    dumps,             \* log: the json dumps emitted by check_bgp, in order
    reports,           \* the section results issued, in order
    started,           \* the sections the harness has started, in order
    pc,                \* the section the harness is at
    i                  \* position of the running section's device loop (0: not begun)

vars == <<testbed, connect_oracle, connected, connect_calls, device_list, parameters,
          all_bgp_sessions, learn_calls, failed_dict, results_table, tables, dumps,
          reports, started, pc, i>>

----------------------------------------------------------------------------
(* Bounds of the model *)

\* the largest inventory
MaxDevices == 2
\* the largest number of neighbor occurrences the learning service returns in a run
MaxNbrs == 2

----------------------------------------------------------------------------
(* Python dict and str operations *)

EmptyDict == <<>>

Keys(d) == {d[j].k : j \in 1..Len(d)}

HasKey(d, key) == \E j \in 1..Len(d) : d[j].k = key

\* d.get(key, default)
Get(d, key, default) ==
    IF HasKey(d, key) THEN d[CHOOSE j \in 1..Len(d) : d[j].k = key].v ELSE default

\* d[key] = val: an existing key keeps its position, a new key goes last
SetItem(d, key, val) ==
    IF HasKey(d, key)
    THEN [j \in 1..Len(d) |-> IF d[j].k = key THEN [k |-> key, v |-> val] ELSE d[j]]
    ELSE Append(d, [k |-> key, v |-> val])

UpperChars == <<"A","B","C","D","E","F","G","H","I","J","K","L","M",
                "N","O","P","Q","R","S","T","U","V","W","X","Y","Z">>
LowerChars == <<"a","b","c","d","e","f","g","h","i","j","k","l","m",
                "n","o","p","q","r","s","t","u","v","w","x","y","z">>

LowerChar(c) ==
    IF \E n \in DOMAIN UpperChars : UpperChars[n] = c
    THEN LowerChars[CHOOSE n \in DOMAIN UpperChars : UpperChars[n] = c]
    ELSE c

UpperChar(c) ==
    IF \E n \in DOMAIN LowerChars : LowerChars[n] = c
    THEN UpperChars[CHOOSE n \in DOMAIN LowerChars : LowerChars[n] = c]
    ELSE c

\* str.lower()
Lower(s) == [n \in 1..Len(s) |-> LowerChar(s[n])]

\* str.capitalize(): first character upper case, the rest lower case
Capitalize(s) ==
    IF Len(s) = 0 THEN s
    ELSE [n \in 1..Len(s) |-> IF n = 1 THEN UpperChar(s[n]) ELSE LowerChar(s[n])]

Str_established == <<"e","s","t","a","b","l","i","s","h","e","d">>
Str_Established == <<"E","s","t","a","b","l","i","s","h","e","d">>
Str_ESTABLISHED == <<"E","S","T","A","B","L","I","S","H","E","D">>
Str_Unknown == <<"U","n","k","n","o","w","n">>
Str_Idle == <<"I","d","l","e">>
Str_idle == <<"i","d","l","e">>
Str_active == <<"a","c","t","i","v","e">>
Str_empty == <<>>

----------------------------------------------------------------------------
(* The inputs: inventories and the snapshots the learning service returns *)

DeviceOrder == <<"R1", "R2", "R3">>

Min(a, b) == IF a < b THEN a ELSE b

Inventories == {SubSeq(DeviceOrder, 1, n) : n \in 0..Min(MaxDevices, Len(DeviceOrder))}

\* the VRF names and neighbor addresses the snapshots use, in the order the
\* learning service inserts them (neither is in sorted order)
VrfOrder == <<"default", "blue">>
AddrOrder == <<"10.0.0.2", "10.0.0.1">>

\* the dicts whose keys are the first n of order, with values in vals
DictsOf(order, vals, n) ==
    {[j \in 1..n |-> [k |-> order[j], v |-> val[j]]] : val \in [1..n -> vals]}

DictsUpTo(order, vals, n) == UNION {DictsOf(order, vals, m) : m \in 0..Min(n, Len(order))}

PropsOf(state) == <<[k |-> "session_state", v |-> state]>>

\* neighbor attribute mappings: no session_state, a passing and a failing one
PropsSet == {EmptyDict, PropsOf(Str_Established), PropsOf(Str_Idle)}

\* a VRF's neighbors: at least one
NeighborDicts == DictsUpTo(AddrOrder, PropsSet, MaxNbrs) \ {EmptyDict}

\* a VRF's data: without the 'neighbor' key, or with it
VrfDatas == {EmptyDict} \cup {<<[k |-> "neighbor", v |-> nd]>> : nd \in NeighborDicts}

VrfsDicts == DictsUpTo(VrfOrder, VrfDatas, Len(VrfOrder))

InfoOf(vrfs_dict) ==
    <<[k |-> "instance", v |->
        <<[k |-> "default", v |-> <<[k |-> "vrf", v |-> vrfs_dict]>>]>>]>>

\* snapshots that lack 'instance', the 'default' instance, or 'vrf'
Info_NoInstance == EmptyDict
Info_NoDefault == <<[k |-> "instance", v |-> EmptyDict]>>
Info_NoVrf == <<[k |-> "instance", v |-> <<[k |-> "default", v |-> EmptyDict]>>]>>

\* line 79: bgp_info.get('instance', {}).get('default', {}).get('vrf', {})
VrfsOf(bgp_info) ==
    Get(Get(Get(bgp_info, "instance", EmptyDict), "default", EmptyDict), "vrf", EmptyDict)

\* line 82: vrf_data.get('neighbor', {})
NeighborsOf(vrf_data) == Get(vrf_data, "neighbor", EmptyDict)

RECURSIVE SumLen(_, _)
SumLen(vrfs_dict, n) ==
    IF n = 0 THEN 0
    ELSE Len(NeighborsOf(vrfs_dict[n].v)) + SumLen(vrfs_dict, n - 1)

\* the number of neighbor occurrences of a snapshot
NbrCount(bgp_info) == SumLen(VrfsOf(bgp_info), Len(VrfsOf(bgp_info)))

AllSnapshots ==
    {Info_NoInstance, Info_NoDefault, Info_NoVrf} \cup {InfoOf(vd) : vd \in VrfsDicts}

\* the snapshots of at most b neighbor occurrences
Snapshots == [b \in 0..MaxNbrs |-> {info \in AllSnapshots : NbrCount(info) <= b}]

RECURSIVE TotalNbrs(_, _)
TotalNbrs(sessions, n) ==
    IF n = 0 THEN 0 ELSE NbrCount(sessions[n].v) + TotalNbrs(sessions, n - 1)

----------------------------------------------------------------------------
(* Section results *)

Report(section, result, device) ==
    [section |-> section, result |-> result, device |-> device]

NoDevice == "-"

----------------------------------------------------------------------------
(* check_bgp, lines 84-93: one neighbor *)

\* a comparison that keeps the case of the state
StateOfKeepCase(props) == Get(props, "session_state", Str_Unknown)

\* lines 85-86
StateOf(props) == Lower(Get(props, "session_state", Str_Unknown))

Verdict(state) == IF state = Str_established THEN "Passed" ELSE "Failed"

\* a failing neighbor replaces its device's entry instead of joining it
NeighborStepOverwrite(acc, device, vrf_name, nbr, props) ==
    LET state == StateOf(props)
        result == Verdict(state)
    IN  [failed |->
            IF result = "Failed"
            THEN SetItem(acc.failed, device, <<[k |-> nbr, v |-> props]>>)
            ELSE acc.failed,
         rows |-> Append(acc.rows, <<vrf_name, nbr, Capitalize(state), result>>)]

\* acc = [failed |-> failed_dict, rows |-> results_table]
NeighborStep(acc, device, vrf_name, nbr, props) ==
    LET state == StateOf(props)
        result == Verdict(state)
    IN  [failed |->
            IF result = "Failed"
            THEN SetItem(acc.failed, device,
                         SetItem(Get(acc.failed, device, EmptyDict), nbr, props))
            ELSE acc.failed,
         rows |-> Append(acc.rows, <<vrf_name, nbr, Capitalize(state), result>>)]

\* lines 84-93: the neighbors of one VRF, from item n on
RECURSIVE EvalNeighbors(_, _, _, _, _)
EvalNeighbors(acc, device, vrf_name, neighbors, n) ==
    IF n > Len(neighbors) THEN acc
    ELSE EvalNeighbors(
            NeighborStep(acc, device, vrf_name, neighbors[n].k, neighbors[n].v),
            device, vrf_name, neighbors, n + 1)

\* lines 81-93: the VRFs of one device, from item n on
RECURSIVE EvalVrfs(_, _, _, _)
EvalVrfs(acc, device, vrfs_dict, n) ==
    IF n > Len(vrfs_dict) THEN acc
    ELSE EvalVrfs(
            EvalNeighbors(acc, device, vrfs_dict[n].k, NeighborsOf(vrfs_dict[n].v), 1),
            device, vrfs_dict, n + 1)

----------------------------------------------------------------------------
(* The run *)

TypeOK ==
    /\ testbed \in Inventories
    /\ connect_oracle \subseteq {testbed[n] : n \in 1..Len(testbed)}
    /\ pc \in {"connect", "learn_bgp", "check_bgp", "clean_up", "done"}
    /\ i \in 0..(MaxDevices + 1)

Init ==
    /\ testbed \in Inventories
    /\ connect_oracle \in SUBSET {testbed[n] : n \in 1..Len(testbed)}
    /\ connected = {}
    /\ connect_calls = <<>>
    /\ device_list = <<>>
    /\ parameters = EmptyDict
    /\ all_bgp_sessions = EmptyDict
    /\ learn_calls = <<>>
    /\ failed_dict = EmptyDict
    /\ results_table = <<>>
    /\ tables = <<>>
    /\ dumps = <<>>
    /\ reports = <<>>
    /\ started = <<>>
    /\ pc = "connect"
    /\ i = 0

\* connect, lines 33-35
ConnectBegin ==
    /\ pc = "connect" /\ i = 0
    /\ started' = Append(started, "connect")
    /\ parameters' = SetItem(parameters, "testbed", testbed)
    /\ device_list' = <<>>
    /\ i' = 1
    /\ UNCHANGED <<testbed, connect_oracle, connected, connect_calls, all_bgp_sessions,
                   learn_calls, failed_dict, results_table, tables, dumps, reports, pc>>

\* connect, lines 37-41: device.connect() returns
ConnectOk ==
    /\ pc = "connect" /\ i >= 1 /\ i <= Len(testbed)
    /\ testbed[i] \notin connect_oracle
    /\ connect_calls' = Append(connect_calls, testbed[i])
    /\ connected' = connected \cup {testbed[i]}
    /\ device_list' = Append(device_list, testbed[i])
    /\ i' = i + 1
    /\ UNCHANGED <<testbed, connect_oracle, parameters, all_bgp_sessions, learn_calls,
                   failed_dict, results_table, tables, dumps, reports, started, pc>>

\* the device is appended whether or not it connected, and the loop goes on
ConnectRaiseAppends ==
    /\ pc = "connect" /\ i >= 1 /\ i <= Len(testbed)
    /\ testbed[i] \in connect_oracle
    /\ connect_calls' = Append(connect_calls, testbed[i])
    /\ device_list' = Append(device_list, testbed[i])
    /\ reports' = Append(reports, Report("connect", "failed", testbed[i]))
    /\ i' = i + 1
    /\ UNCHANGED <<testbed, connect_oracle, connected, parameters, all_bgp_sessions,
                   learn_calls, failed_dict, results_table, tables, dumps, started, pc>>

\* connect, lines 37-43: device.connect() raises; self.failed() in the handler raises
\* the Failed signal out of the subsection: the loop and line 46 are not run, the
\* common setup is Failed, the testcases are blocked, the common cleanup runs
ConnectRaise ==
    /\ pc = "connect" /\ i >= 1 /\ i <= Len(testbed)
    /\ testbed[i] \in connect_oracle
    /\ connect_calls' = Append(connect_calls, testbed[i])
    /\ reports' = Append(reports, Report("connect", "failed", testbed[i]))
    /\ pc' = "clean_up"
    /\ i' = 0
    /\ UNCHANGED <<testbed, connect_oracle, connected, device_list, parameters,
                   all_bgp_sessions, learn_calls, failed_dict, results_table, tables,
                   dumps, started>>

\* connect, line 46, and the subsection returns: Passed
ConnectPublish ==
    /\ pc = "connect" /\ i > Len(testbed)
    /\ parameters' = SetItem(parameters, "devices", device_list)
    /\ reports' = Append(reports, Report("connect", "passed", NoDevice))
    /\ pc' = "learn_bgp"
    /\ i' = 0
    /\ UNCHANGED <<testbed, connect_oracle, connected, connect_calls, device_list,
                   all_bgp_sessions, learn_calls, failed_dict, results_table, tables,
                   dumps, started>>

Devices == Get(parameters, "devices", <<>>)

\* learn_bgp, line 59
LearnBegin ==
    /\ pc = "learn_bgp" /\ i = 0
    /\ HasKey(parameters, "devices")
    /\ started' = Append(started, "learn_bgp")
    /\ all_bgp_sessions' = EmptyDict
    /\ i' = 1
    /\ UNCHANGED <<testbed, connect_oracle, connected, connect_calls, device_list,
                   parameters, learn_calls, failed_dict, results_table, tables, dumps,
                   reports, pc>>

\* learn_bgp, lines 61-68: bgp.learn() leaves an info
LearnStore ==
    /\ pc = "learn_bgp" /\ i >= 1 /\ i <= Len(Devices)
    /\ \E info \in Snapshots[MaxNbrs - TotalNbrs(all_bgp_sessions, Len(all_bgp_sessions))] :
        all_bgp_sessions' = SetItem(all_bgp_sessions, Devices[i], info)
    /\ learn_calls' = Append(learn_calls, Devices[i])
    /\ i' = i + 1
    /\ UNCHANGED <<testbed, connect_oracle, connected, connect_calls, device_list,
                   parameters, failed_dict, results_table, tables, dumps, reports,
                   started, pc>>

\* the failure is reported without the goto, and the loop goes on
LearnAbsentContinues ==
    /\ pc = "learn_bgp" /\ i >= 1 /\ i <= Len(Devices)
    /\ learn_calls' = Append(learn_calls, Devices[i])
    /\ reports' = Append(reports, Report("learn_bgp", "failed", Devices[i]))
    /\ i' = i + 1
    /\ UNCHANGED <<testbed, connect_oracle, connected, connect_calls, device_list,
                   parameters, all_bgp_sessions, failed_dict, results_table, tables,
                   dumps, started, pc>>

\* learn_bgp, lines 61-70: bgp.learn() leaves no info; failed(goto=['common_cleanup'])
LearnAbsent ==
    /\ pc = "learn_bgp" /\ i >= 1 /\ i <= Len(Devices)
    /\ learn_calls' = Append(learn_calls, Devices[i])
    /\ reports' = Append(reports, Report("learn_bgp", "failed", Devices[i]))
    /\ pc' = "clean_up"
    /\ i' = 0
    /\ UNCHANGED <<testbed, connect_oracle, connected, connect_calls, device_list,
                   parameters, all_bgp_sessions, failed_dict, results_table, tables,
                   dumps, started>>

\* learn_bgp returns: Passed
LearnDone ==
    /\ pc = "learn_bgp" /\ i > Len(Devices)
    /\ reports' = Append(reports, Report("learn_bgp", "passed", NoDevice))
    /\ pc' = "check_bgp"
    /\ i' = 0
    /\ UNCHANGED <<testbed, connect_oracle, connected, connect_calls, device_list,
                   parameters, all_bgp_sessions, learn_calls, failed_dict, results_table,
                   tables, dumps, started>>

\* check_bgp, lines 75-76
CheckBegin ==
    /\ pc = "check_bgp" /\ i = 0
    /\ started' = Append(started, "check_bgp")
    /\ failed_dict' = EmptyDict
    /\ results_table' = <<>>
    /\ i' = 1
    /\ UNCHANGED <<testbed, connect_oracle, connected, connect_calls, device_list,
                   parameters, all_bgp_sessions, learn_calls, tables, dumps, reports, pc>>

\* the device loop is left at the first device that has a failing neighbor
CheckDeviceStopsOnFailure ==
    /\ pc = "check_bgp" /\ i >= 1 /\ i <= Len(all_bgp_sessions)
    /\ LET device == all_bgp_sessions[i].k
           bgp_info == all_bgp_sessions[i].v
           acc == EvalVrfs([failed |-> failed_dict, rows |-> results_table],
                           device, VrfsOf(bgp_info), 1)
       IN  /\ failed_dict' = acc.failed
           /\ results_table' = acc.rows
           /\ tables' = Append(tables, [device |-> device, rows |-> acc.rows])
           /\ i' = IF acc.failed # EmptyDict THEN Len(all_bgp_sessions) + 1 ELSE i + 1
    /\ UNCHANGED <<testbed, connect_oracle, connected, connect_calls, device_list,
                   parameters, all_bgp_sessions, learn_calls, dumps, reports, started, pc>>

\* check_bgp, lines 78-97: one device of all_bgp_sessions.items()
CheckDevice ==
    /\ pc = "check_bgp" /\ i >= 1 /\ i <= Len(all_bgp_sessions)
    /\ LET device == all_bgp_sessions[i].k
           bgp_info == all_bgp_sessions[i].v
           acc == EvalVrfs([failed |-> failed_dict, rows |-> results_table],
                           device, VrfsOf(bgp_info), 1)
       IN  /\ failed_dict' = acc.failed
           /\ results_table' = acc.rows
           /\ tables' = Append(tables, [device |-> device, rows |-> acc.rows])
    /\ i' = i + 1
    /\ UNCHANGED <<testbed, connect_oracle, connected, connect_calls, device_list,
                   parameters, all_bgp_sessions, learn_calls, dumps, reports, started, pc>>

\* a run without any row is failed
CheckVerdictFailsOnNoRows ==
    /\ pc = "check_bgp" /\ i > Len(all_bgp_sessions)
    /\ IF failed_dict # EmptyDict \/ results_table = <<>>
       THEN /\ dumps' = Append(dumps, failed_dict)
            /\ reports' = Append(reports, Report("check_bgp", "failed", NoDevice))
       ELSE /\ dumps' = dumps
            /\ reports' = Append(reports, Report("check_bgp", "passed", NoDevice))
    /\ pc' = "clean_up"
    /\ i' = 0
    /\ UNCHANGED <<testbed, connect_oracle, connected, connect_calls, device_list,
                   parameters, all_bgp_sessions, learn_calls, failed_dict, results_table,
                   tables, started>>

\* check_bgp, lines 99-103
CheckVerdict ==
    /\ pc = "check_bgp" /\ i > Len(all_bgp_sessions)
    /\ IF failed_dict # EmptyDict
       THEN /\ dumps' = Append(dumps, failed_dict)
            /\ reports' = Append(reports, Report("check_bgp", "failed", NoDevice))
       ELSE /\ dumps' = dumps
            /\ reports' = Append(reports, Report("check_bgp", "passed", NoDevice))
    /\ pc' = "clean_up"
    /\ i' = 0
    /\ UNCHANGED <<testbed, connect_oracle, connected, connect_calls, device_list,
                   parameters, all_bgp_sessions, learn_calls, failed_dict, results_table,
                   tables, started>>

\* clean_up, lines 114-116
CleanUp ==
    /\ pc = "clean_up"
    /\ started' = Append(started, "clean_up")
    /\ reports' = Append(reports, Report("clean_up", "passed", NoDevice))
    /\ pc' = "done"
    /\ UNCHANGED <<testbed, connect_oracle, connected, connect_calls, device_list,
                   parameters, all_bgp_sessions, learn_calls, failed_dict, results_table,
                   tables, dumps, i>>

Next ==
    \/ ConnectBegin
    \/ ConnectOk
    \/ ConnectRaise
    \/ ConnectPublish
    \/ LearnBegin
    \/ LearnStore
    \/ LearnAbsent
    \/ LearnDone
    \/ CheckBegin
    \/ CheckDevice
    \/ CheckVerdict
    \/ CleanUp

Spec == Init /\ [][Next]_vars

----------------------------------------------------------------------------
(* The evaluation stage on one neighbor with any spelling of its state: the *)
(* run has connected R1 and learnt a snapshot of one VRF and one neighbor.  *)

\* the spellings of w in upper and lower case
CaseVariants(w) ==
    {[n \in 1..Len(w) |-> IF up[n] THEN UpperChar(w[n]) ELSE w[n]] :
        up \in [1..Len(w) -> BOOLEAN]}

Str_unknown == <<"u","n","k","n","o","w","n">>
Str_establishe == <<"e","s","t","a","b","l","i","s","h","e">>
Str_establishedd == <<"e","s","t","a","b","l","i","s","h","e","d","d">>
Str_established_sp == <<"e","s","t","a","b","l","i","s","h","e","d"," ">>
Str_sp_established == <<" ","e","s","t","a","b","l","i","s","h","e","d">>

StateStrings ==
    CaseVariants(Str_established) \cup CaseVariants(Str_idle) \cup CaseVariants(Str_active)
    \cup CaseVariants(Str_unknown)
    \cup {Str_empty, Str_establishe, Str_establishedd, Str_established_sp,
          Str_sp_established}

VerdictProps == {EmptyDict} \cup {PropsOf(st) : st \in StateStrings}

InitVerdict ==
    /\ testbed = <<"R1">>
    /\ connect_oracle = {}
    /\ connected = {"R1"}
    /\ connect_calls = <<"R1">>
    /\ device_list = <<"R1">>
    /\ parameters = <<[k |-> "testbed", v |-> <<"R1">>], [k |-> "devices", v |-> <<"R1">>]>>
    /\ \E props \in VerdictProps :
        all_bgp_sessions =
            <<[k |-> "R1", v |-> InfoOf(<<[k |-> VrfOrder[1], v |->
                <<[k |-> "neighbor", v |-> <<[k |-> AddrOrder[1], v |-> props]>>]>>]>>)]>>
    /\ learn_calls = <<"R1">>
    /\ failed_dict = EmptyDict
    /\ results_table = <<>>
    /\ tables = <<>>
    /\ dumps = <<>>
    /\ reports = <<Report("connect", "passed", NoDevice),
                   Report("learn_bgp", "passed", NoDevice)>>
    /\ started = <<"connect", "learn_bgp">>
    /\ pc = "check_bgp"
    /\ i = 0

NextVerdict ==
    \/ CheckBegin
    \/ CheckDevice
    \/ CheckVerdict
    \/ CleanUp

SpecVerdict == InitVerdict /\ [][NextVerdict]_vars

----------------------------------------------------------------------------
(* What the claims speak of *)

\* the neighbor occurrences of a snapshot mapping, in iteration order
OccOfVrf(device, vrf_name, neighbors) ==
    [n \in 1..Len(neighbors) |->
        [device |-> device, vrf |-> vrf_name, nbr |-> neighbors[n].k,
         props |-> neighbors[n].v]]

RECURSIVE OccOfVrfs(_, _, _)
OccOfVrfs(device, vrfs_dict, n) ==
    IF n = 0 THEN <<>>
    ELSE OccOfVrfs(device, vrfs_dict, n - 1)
         \o OccOfVrf(device, vrfs_dict[n].k, Get(vrfs_dict[n].v, "neighbor", <<>>))

OccOfDevice(device, bgp_info) ==
    OccOfVrfs(device, VrfsOf(bgp_info), Len(VrfsOf(bgp_info)))

RECURSIVE OccUpTo(_, _)
OccUpTo(sessions, n) ==
    IF n = 0 THEN <<>>
    ELSE OccUpTo(sessions, n - 1) \o OccOfDevice(sessions[n].k, sessions[n].v)

Occurrences == OccUpTo(all_bgp_sessions, Len(all_bgp_sessions))

\* s spells w, in whatever case
Spells(s, w) ==
    /\ Len(s) = Len(w)
    /\ \A n \in 1..Len(w) : s[n] = w[n] \/ s[n] = UpperChar(w[n])

PassingProps(props) ==
    /\ HasKey(props, "session_state")
    /\ Spells(Get(props, "session_state", Str_empty), Str_established)

ExpectedVerdict(props) == IF PassingProps(props) THEN "Passed" ELSE "Failed"

CheckReports == SelectSeq(reports, LAMBDA r : r.section = "check_bgp")

\* check_bgp has issued its verdict
CheckFinished == Len(CheckReports) > 0

\* C3: every row check_bgp has built carries the verdict Passed exactly when its
\* neighbor has a session_state that spells "established" in whatever case; so
\* "Established", "ESTABLISHED" and "established" pass, and "idle", "active", the
\* empty string and a missing session_state fail.
C3_VerdictRule ==
    /\ Len(results_table) <= Len(Occurrences)
    /\ \A n \in 1..Len(results_table) :
        LET props == Occurrences[n].props
            verdict == results_table[n][4]
        IN  /\ verdict = ExpectedVerdict(props)
            /\ props \in {PropsOf(Str_Established), PropsOf(Str_ESTABLISHED),
                          PropsOf(Str_established)} => verdict = "Passed"
            /\ props \in {PropsOf(Str_idle), PropsOf(Str_active), PropsOf(Str_empty),
                          EmptyDict} => verdict = "Failed"

C3_Witness ==
    /\ CheckFinished
    /\ Len(results_table) = 1
    /\ Occurrences[1].props = PropsOf(Str_ESTABLISHED)
    /\ results_table[1][4] = "Passed"

RangeOf(seq) == {seq[n] : n \in 1..Len(seq)}

\* the devices a section has reported as failed
FailedDevices(section) ==
    {reports[n].device : n \in {m \in 1..Len(reports) :
        reports[m].section = section /\ reports[m].result = "failed"}}

\* check_bgp has left its device loop
TraversalDone == (pc = "check_bgp" /\ i > Len(all_bgp_sessions)) \/ CheckFinished

\* the row of a neighbor occurrence
RowOf(o) ==
    <<o.vrf, o.nbr, Capitalize(Lower(Get(o.props, "session_state", Str_Unknown))),
      ExpectedVerdict(o.props)>>

RowsOf(occs) == [n \in 1..Len(occs) |-> RowOf(occs[n])]

\* the addresses of the failing neighbors of a device
FailingNbrs(device, bgp_info) ==
    {o.nbr : o \in {x \in RangeOf(OccOfDevice(device, bgp_info)) :
        ExpectedVerdict(x.props) = "Failed"}}

\* C1: once the connection stage is over, connect has been attempted on every device
\* of the inventory, and 'devices' is published as the devices whose connect
\* succeeded, in inventory order.
C1_ConnectContinues ==
    pc # "connect" =>
        /\ connect_calls = testbed
        /\ HasKey(parameters, "devices")
        /\ Devices = SelectSeq(testbed, LAMBDA d : d \notin connect_oracle)

\* C2: a finished run in which R1 connected and R2's connection failed has run
\* learn_bgp on R1 only, and if R1's snapshot was stored check_bgp has evaluated
\* it, and it alone, and has issued its verdict.
C2_ScenarioE ==
    (pc = "done" /\ "R1" \in connected /\ "R2" \in FailedDevices("connect")) =>
        /\ learn_calls = <<"R1">>
        /\ HasKey(all_bgp_sessions, "R1") =>
            /\ CheckFinished
            /\ Len(tables) = 1
            /\ tables[1].device = "R1"

\* C4: after check_bgp has traversed all snapshots, failed_dict has an entry for a
\* device exactly when the device has a failing neighbor, the addresses under the
\* entry are exactly the addresses of its failing neighbors, every stored mapping is
\* that of a failing neighbor at that address, and the dump is this failed_dict.
C4_FailureIndexExact ==
    TraversalDone =>
        /\ Keys(failed_dict) \subseteq Keys(all_bgp_sessions)
        /\ \A n \in 1..Len(all_bgp_sessions) :
            LET device == all_bgp_sessions[n].k
                failing == FailingNbrs(device, all_bgp_sessions[n].v)
                entry == Get(failed_dict, device, EmptyDict)
            IN  /\ HasKey(failed_dict, device) <=> failing # {}
                /\ Keys(entry) = failing
                /\ \A m \in 1..Len(entry) :
                    \E o \in RangeOf(OccOfDevice(device, all_bgp_sessions[n].v)) :
                        /\ o.nbr = entry[m].k
                        /\ o.props = entry[m].v
                        /\ ExpectedVerdict(o.props) = "Failed"
        /\ \A n \in 1..Len(dumps) : dumps[n] = failed_dict

C4_Witness ==
    /\ CheckFinished
    /\ \E n \in 1..Len(all_bgp_sessions) :
        /\ Len(OccOfDevice(all_bgp_sessions[n].k, all_bgp_sessions[n].v)) = 2
        /\ Len(Get(failed_dict, all_bgp_sessions[n].k, EmptyDict)) = 1
        /\ Len(dumps) = 1

\* C5: once learn_bgp has failed on a device, that device is the last one bgp.learn()
\* was called on and has no snapshot, check_bgp is never started and issues no
\* verdict, table or dump, and the run is at the common cleanup or past it, having
\* run clean_up when it is done.
C5_LearnFailureShortCircuits ==
    \A d \in FailedDevices("learn_bgp") :
        /\ learn_calls # <<>> /\ learn_calls[Len(learn_calls)] = d
        /\ ~HasKey(all_bgp_sessions, d)
        /\ "check_bgp" \notin RangeOf(started)
        /\ ~CheckFinished
        /\ tables = <<>> /\ dumps = <<>>
        /\ pc \in {"clean_up", "done"}
        /\ pc = "done" => "clean_up" \in RangeOf(started)

C5_Witness ==
    /\ pc = "done"
    /\ FailedDevices("learn_bgp") # {}
    /\ Len(Devices) = 2
    /\ Len(learn_calls) = 1

\* C6: check_bgp issues at most one verdict, and exactly one once it is over; when
\* the verdict is issued every collected device has had its table emitted, in
\* order; the verdict is failed exactly when failed_dict is not empty, and the dump
\* of failed_dict is emitted exactly then.
C6_OneFinalVerdict ==
    /\ Len(CheckReports) <= 1
    /\ (pc \in {"clean_up", "done"} /\ "check_bgp" \in RangeOf(started)) => CheckFinished
    /\ ~CheckFinished => dumps = <<>>
    /\ CheckFinished =>
        /\ Len(tables) = Len(all_bgp_sessions)
        /\ \A n \in 1..Len(tables) : tables[n].device = all_bgp_sessions[n].k
        /\ CheckReports[1].result \in {"passed", "failed"}
        /\ CheckReports[1].result = "failed" <=> failed_dict # EmptyDict
        /\ dumps = IF CheckReports[1].result = "failed" THEN <<failed_dict>> ELSE <<>>

C6_Witness ==
    /\ CheckFinished
    /\ Len(all_bgp_sessions) = 2
    /\ HasKey(failed_dict, all_bgp_sessions[1].k)
    /\ Len(tables) = 2
    /\ dumps = <<failed_dict>>

\* C7: the n-th table emitted is the table of the n-th collected device and holds
\* exactly the rows of that device's own neighbors, in iteration order.
C7_TablePerDevice ==
    \A n \in 1..Len(tables) :
        /\ n <= Len(all_bgp_sessions)
        /\ tables[n].device = all_bgp_sessions[n].k
        /\ tables[n].rows =
            RowsOf(OccOfDevice(all_bgp_sessions[n].k, all_bgp_sessions[n].v))

\* C8: after the traversal there is one row per neighbor occurrence, and every
\* failing occurrence has its own attribute mapping in failed_dict under its device
\* and address.
C8_OneEntryPerOccurrence ==
    TraversalDone =>
        /\ Len(results_table) = Len(Occurrences)
        /\ \A o \in RangeOf(Occurrences) :
            ExpectedVerdict(o.props) = "Failed" =>
                /\ HasKey(failed_dict, o.device)
                /\ HasKey(Get(failed_dict, o.device, EmptyDict), o.nbr)
                /\ Get(Get(failed_dict, o.device, EmptyDict), o.nbr, EmptyDict) = o.props

\* the snapshot lacks 'instance', the 'default' instance or 'vrf'
MissingLevel(bgp_info) ==
    \/ ~HasKey(bgp_info, "instance")
    \/ ~HasKey(Get(bgp_info, "instance", EmptyDict), "default")
    \/ ~HasKey(Get(Get(bgp_info, "instance", EmptyDict), "default", EmptyDict), "vrf")

\* the VRFs of a snapshot that have neighbors
VrfsWithNeighbors(bgp_info) ==
    IF MissingLevel(bgp_info) THEN {}
    ELSE LET vrfs == bgp_info[1].v[1].v[1].v
         IN  {vrfs[n].k : n \in {m \in 1..Len(vrfs) :
                HasKey(vrfs[m].v, "neighbor") /\ Len(vrfs[m].v[1].v) > 0}}

\* the rows the n-th device added to results_table
RowsAdded(n) ==
    SubSeq(tables[n].rows, IF n = 1 THEN 1 ELSE Len(tables[n - 1].rows) + 1,
           Len(tables[n].rows))

\* C9: a device whose snapshot lacks 'instance', 'default' or 'vrf' adds no row and
\* has no failed_dict entry; a VRF without 'neighbor' adds no row; and when no
\* collected snapshot has a neighbor (also when none was collected) the verdict is
\* passed, failed_dict is empty and nothing is dumped.
C9_MissingKeysAreZeroNeighbors ==
    /\ \A n \in 1..Len(tables) :
        LET vrfs == VrfsWithNeighbors(all_bgp_sessions[n].v)
        IN  /\ \A m \in 1..Len(RowsAdded(n)) : RowsAdded(n)[m][1] \in vrfs
            /\ vrfs = {} => ~HasKey(failed_dict, tables[n].device)
    /\ (CheckFinished /\ \A n \in 1..Len(all_bgp_sessions) :
            VrfsWithNeighbors(all_bgp_sessions[n].v) = {}) =>
        /\ CheckReports[1].result = "passed"
        /\ failed_dict = EmptyDict
        /\ dumps = <<>>

C9_Witness ==
    /\ CheckFinished
    /\ Len(all_bgp_sessions) = 2
    /\ all_bgp_sessions[1].v = Info_NoDefault
    /\ all_bgp_sessions[2].v = InfoOf(<<[k |-> VrfOrder[1], v |-> EmptyDict]>>)
    /\ CheckReports[1].result = "passed"

\* C10: in every state the devices keyed in failed_dict are among those keyed in
\* all_bgp_sessions, which are among the devices of the working set, which are
\* connected; a device whose connection or collection failed has no snapshot,
\* table or failed_dict entry; and check_bgp leaves all_bgp_sessions unchanged.
C10_Subsets ==
    /\ Keys(failed_dict) \subseteq Keys(all_bgp_sessions)
    /\ Keys(all_bgp_sessions) \subseteq RangeOf(Devices)
    /\ RangeOf(Devices) \subseteq connected
    /\ {tables[n].device : n \in 1..Len(tables)} \subseteq Keys(all_bgp_sessions)
    /\ \A d \in FailedDevices("connect") \cup FailedDevices("learn_bgp") :
        /\ ~HasKey(all_bgp_sessions, d)
        /\ ~HasKey(failed_dict, d)
        /\ \A n \in 1..Len(tables) : tables[n].device # d

C10_SnapshotSubsets ==
    /\ []C10_Subsets
    /\ [][pc = "check_bgp" => all_bgp_sessions' = all_bgp_sessions]_vars

C10_Witness ==
    /\ CheckFinished
    /\ Len(all_bgp_sessions) = 2
    /\ Keys(failed_dict) = {all_bgp_sessions[2].k}

====
